---- MODULE Spec2Model ----
(***************************************************************************)
(* A model of the location tracker server (src/server.js): the ingestion   *)
(* endpoints with their validation middleware, the tracking-link and       *)
(* tracking-session handlers and the sqlite tables they write, the         *)
(* Socket.IO handlers and the fan-out of location updates, the geofence    *)
(* check and the route analysis; and of the sync queue of the client's     *)
(* service worker (src/public/sw.js).                                      *)
(*                                                                         *)
(* Granularity.  A handler runs to completion up to its first db call; a   *)
(* db statement and the callback that receives its result form one step    *)
(* (the statement is atomic in sqlite and the callback is the only code    *)
(* that observes its result).  Statements queued by different requests run *)
(* in any order (the Database is never put in serialize mode after the     *)
(* schema is created).  Every db statement may fail; `err` is that choice. *)
(***************************************************************************)
EXTENDS Integers, Sequences, FiniteSets, TLC

\* ------------------------------------------------------------- bounds
MaxLinks == 1      \* tracking links that can be created
MaxSess  == 2      \* tracking sessions that can be started
MaxReq   == 2      \* ingest requests that can be submitted
MaxConn  == 2      \* Socket.IO connections that can be opened
MaxFences == 2     \* geofences that can be created
MaxHistory == 3    \* rows of a history handed to the route analysis
MaxLoc == 2        \* locations handed to the service worker
MaxRuns == 2       \* runs of handleLocationSync
MaxClock == 1      \* the last value Date.now() takes

LinkIds == 1..MaxLinks
SessIds == 1..MaxSess

\* A trackingId / sessionId no uuidv4() call ever returns (a client may send
\* any string), and the absent sessionId (undefined in req.body).
UnknownTid == MaxLinks + 1
UnknownSid == MaxSess + 1
NoSid == 0

\* The sockets, by socket.id, and the rooms they can name: join-tracking and
\* leave-tracking take any trackingId, that of a link or not.
Conns == 1..MaxConn
RoomIds == LinkIds \cup {UnknownTid}
NoRoom == 0

\* ------------------------------------------------------------ JS values
\* A JSON body field: undefined (absent), null, or a number.
Undef == [k |-> "undefined", v |-> 0]
Null == [k |-> "null", v |-> 0]
Num(n) == [k |-> "number", v |-> n]

\* ToBoolean of a body field: undefined, null and 0 are falsy.
Truthy(x) == x.k = "number" /\ x.v # 0

\* ToNumber, as the relational operators apply it (null -> 0; a comparison
\* with undefined -> NaN is false and is never reached past the first check).
ToNum(x) == x.v

\* ------------------------------------------------------------ responses
NoRes == "none"
Next == "next()"
ErrMissing == "400 Eksik konum verileri"
ErrCoords == "400 Gecersiz koordinatlar"
ErrAccuracy == "400 Gecersiz hassasiyet degeri"
ErrSession == "400 Session ID gerekli"
ErrStorage == "500 err.message"
ErrNoLink == "404 Link bulunamadi"
Success == "200 success"

ValidationErrors == {ErrMissing, ErrCoords, ErrAccuracy, ErrSession}

\* ------------------------------------------------------------ validation
\* The middleware: the response it sends, or Next when it calls next().
validateLocationData(b) ==
    IF ~Truthy(b.latitude) \/ ~Truthy(b.longitude) \/ ~Truthy(b.accuracy)
    THEN ErrMissing
    ELSE IF ToNum(b.latitude) < -90 \/ ToNum(b.latitude) > 90
            \/ ToNum(b.longitude) < -180 \/ ToNum(b.longitude) > 180
    THEN ErrCoords
    ELSE IF ToNum(b.accuracy) < 0 \/ ToNum(b.accuracy) > 10000
    THEN ErrAccuracy
    ELSE Next

\* "Session kontrolu" of save-location and background-location.
sessionCheck(b) == IF b.sessionId = NoSid THEN ErrSession ELSE Next

\* What each ingest route does with a body before its INSERT: the error it
\* answers, or Next when it goes on to db.run(INSERT ...).
SaveLocationVerdict(b) ==
    IF validateLocationData(b) # Next THEN validateLocationData(b) ELSE sessionCheck(b)

MobileLocationVerdict(b) == validateLocationData(b)

BackgroundLocationVerdict(b) ==
    IF validateLocationData(b) # Next THEN validateLocationData(b) ELSE sessionCheck(b)

Verdict(ep, b) ==
    CASE ep = "save-location" -> SaveLocationVerdict(b)
      [] ep = "mobile/location" -> MobileLocationVerdict(b)
      [] ep = "background-location" -> BackgroundLocationVerdict(b)

Endpoints == {"save-location", "mobile/location", "background-location"}

\* ------------------------------------------------------------ state
VARIABLES
    tracking_links,     \* table: link id -> "none" | "active" | "inactive"
    location_data,      \* table: set of rows
    tracking_sessions,  \* table: session id -> row, or NoRow
    lastRowId,          \* AUTOINCREMENT counter of location_data
    reqs,               \* the ingest requests received so far, in order of arrival
    published,          \* the location-update events emitted, in order
    del,                \* the DELETE /api/links/:id request in flight, or NoDel
    lastRes,            \* the last response of a link or session handler
    vreq, vres,         \* a request body under validation, and its verdict
    sockets,            \* socket.id -> the socket: status, rooms, packets sent to it
    activeConnections,  \* the Map socket.id -> trackingId (NoRoom: no entry)
    geofences,          \* table: set of rows
    triggered,          \* the last response of check-geofence
    locations,          \* the rows handed to analyzeRoute
    route,              \* what analyzeRoute returned for them
    clock,              \* sw.js: Date.now()
    store,              \* sw.js: the object store 'location-data', a set of records
    runs,               \* sw.js: the runs of handleLocationSync, in order of start
    handed,             \* sw.js: the locations storeLocation was called with
    received            \* the locations the server answered ok to, in order

vars == <<tracking_links, location_data, tracking_sessions, lastRowId, reqs, published, del, lastRes, vreq, vres,
          sockets, activeConnections, geofences, triggered, locations, route,
          clock, store, runs, handed, received>>

routerVars == <<sockets, activeConnections>>
geoVars == <<geofences, triggered>>
routeVars == <<locations, route>>
swVars == <<clock, store, runs, handed, received>>
otherVars == <<routerVars, geoVars, routeVars, swVars>>

mainVars == <<tracking_links, location_data, tracking_sessions, lastRowId, reqs, published, del, lastRes>>

NoRow == [exists |-> FALSE]
NoDel == [pc |-> "idle", id |-> 0]
NoBody == [ep |-> "none"]

ExistingLinks == {l \in LinkIds : tracking_links[l] # "none"}
ExistingSessions == {s \in SessIds : tracking_sessions[s] # NoRow}

LinkActive(t) == t \in LinkIds /\ tracking_links[t] = "active"

InitMain ==
    /\ tracking_links = [l \in LinkIds |-> "none"]
    /\ location_data = {}
    /\ tracking_sessions = [s \in SessIds |-> NoRow]
    /\ lastRowId = 0
    /\ reqs = <<>>
    /\ published = <<>>
    /\ del = NoDel
    /\ lastRes = [op |-> "none", id |-> 0, status |-> NoRes]

\* A socket before its connection event: in no room, nothing sent to it.
\* rejoined (the number of events published when the socket last joined a
\* room it was in) is history, read by the properties only.
NoAck == [ev |-> "none", trackingId |-> NoRoom]
Never == -1
NewSocket ==
    [status |-> "new", rooms |-> {}, inbox |-> <<>>, ack |-> NoAck,
     rejoined |-> Never]

InitRouter ==
    /\ sockets = [c \in Conns |-> NewSocket]
    /\ activeConnections = [c \in Conns |-> NoRoom]

NoTriggered ==
    [status |-> NoRes, triggeredGeofences |-> <<>>,
     req |-> [trackingId |-> NoRoom, latitude |-> 0, longitude |-> 0], rows |-> <<>>]

InitGeo ==
    /\ geofences = {}
    /\ triggered = NoTriggered

NoRoute == [status |-> NoRes]

InitRoute ==
    /\ locations = <<>>
    /\ route = NoRoute

\* The service worker installed: an empty store, no sync run.
InitSw ==
    /\ clock = 0
    /\ store = {}
    /\ runs = <<>>
    /\ handed = {}
    /\ received = <<>>

Init ==
    /\ InitMain /\ InitRouter /\ InitGeo /\ InitRoute /\ InitSw
    /\ vreq = NoBody /\ vres = NoRes

\* A fan-out that reads the registry in place of the rooms: the packet goes
\* to the sockets whose entry of activeConnections is the event's link.
Deliver_ByRegistry(socks, ev) ==
    [c \in Conns |->
        IF socks[c].status = "connected" /\ activeConnections[c] = ev.room
        THEN [socks[c] EXCEPT !.inbox = Append(@, ev)]
        ELSE socks[c]]

\* A fan-out whose packets overtake those written before them.
Deliver_Prepend(socks, ev) ==
    [c \in Conns |->
        IF socks[c].status = "connected" /\ ev.room \in socks[c].rooms
        THEN [socks[c] EXCEPT !.inbox = <<ev>> \o @]
        ELSE socks[c]]

\* io.emit('location-update', ev): the packet written to every connected
\* socket, whatever its rooms.
Deliver_Broadcast(socks, ev) ==
    [c \in Conns |->
        IF socks[c].status = "connected"
        THEN [socks[c] EXCEPT !.inbox = Append(@, ev)]
        ELSE socks[c]]

\* io.to(trackingId).emit('location-update', ev): the packet is written, in
\* the call, to every connected socket that is in the room at that moment.
Deliver(socks, ev) ==
    [c \in Conns |->
        IF socks[c].status = "connected" /\ ev.room \in socks[c].rooms
        THEN [socks[c] EXCEPT !.inbox = Append(@, ev)]
        ELSE socks[c]]

\* ------------------------------------------------------------ ingestion
\* The bodies submitted to the ingest routes in the full system: a valid fix
\* for a link and a session that exist, an unknown one, or (the session)
\* none; and a fix on the equator.  SpecValidate below draws the bodies from
\* a wider set.
MainBodies ==
    [trackingId : ExistingLinks \cup {UnknownTid},
     latitude : {Num(41)},
     longitude : {Num(28)},
     accuracy : {Num(5)},
     sessionId : ExistingSessions \cup {UnknownSid, NoSid}]
    \cup
    [trackingId : {UnknownTid},
     latitude : {Num(0)},
     longitude : {Num(28)},
     accuracy : {Num(5)},
     sessionId : {UnknownSid}]

\* The request as the route handler leaves it: answered with the validation
\* error, or waiting for its INSERT.  rowid (this.lastID), upd (the outcome
\* of the session UPDATE), conc (another UPDATE of the same session was
\* queued when this one ran) and linkOk (the link was active on arrival) are
\* history, read by the properties only.
NewRequest(ep, b) ==
    [trackingId |-> b.trackingId, sessionId |-> b.sessionId,
     latitude |-> b.latitude, longitude |-> b.longitude, accuracy |-> b.accuracy,
     pc |-> IF Verdict(ep, b) = Next THEN "insert" ELSE "done",
     res |-> IF Verdict(ep, b) = Next THEN NoRes ELSE Verdict(ep, b),
     rowid |-> 0, upd |-> "none", conc |-> FALSE,
     linkOk |-> LinkActive(b.trackingId)]

Receive(ep, b) ==
    /\ Len(reqs) < MaxReq
    /\ reqs' = Append(reqs, NewRequest(ep, b))
    /\ UNCHANGED <<tracking_links, location_data, tracking_sessions, lastRowId,
                   published, del, lastRes, vreq, vres, otherVars>>

\* The row the INSERT of a request writes, given the id it is assigned.
RowOf(r, id) ==
    [id |-> id, tracking_id |-> r.trackingId, session_id |-> r.sessionId,
     latitude |-> r.latitude, longitude |-> r.longitude, accuracy |-> r.accuracy]

Row(i, id) == RowOf(reqs[i], id)

\* The event addressed to the room of the session instead of the link's.
Event_ToSessionRoom(i) ==
    [room |-> reqs[i].sessionId, latitude |-> reqs[i].latitude,
     longitude |-> reqs[i].longitude, accuracy |-> reqs[i].accuracy, req |-> i]

\* The location-update event; req tags the emit with the request it came
\* from (in the code the timestamp tells two events apart).
Event(i) ==
    [room |-> reqs[i].trackingId, latitude |-> reqs[i].latitude,
     longitude |-> reqs[i].longitude, accuracy |-> reqs[i].accuracy, req |-> i]

\* save-location with the session check after the INSERT: a body without
\* sessionId is answered 400 and its row is written all the same.
SaveLocation_InsertBeforeSessionCheck ==
    \E b \in MainBodies :
    /\ Len(reqs) < MaxReq
    /\ reqs' = Append(reqs, NewRequest("save-location", b))
    /\ IF validateLocationData(b) = Next /\ sessionCheck(b) # Next
       THEN /\ lastRowId' = lastRowId + 1
            /\ location_data' = location_data \cup {RowOf(b, lastRowId + 1)}
       ELSE UNCHANGED <<location_data, lastRowId>>
    /\ UNCHANGED <<tracking_links, tracking_sessions, published, del, lastRes,
                   vreq, vres, otherVars>>

\* POST /api/save-location
SaveLocation == \E b \in MainBodies : Receive("save-location", b)

\* POST /api/mobile/location
MobileLocation == \E b \in MainBodies : Receive("mobile/location", b)

\* POST /api/background-location
BackgroundLocation == \E b \in MainBodies : Receive("background-location", b)

\* The INSERT callback without the return of its error branch: the error is
\* answered and the event is emitted and the UPDATE queued all the same.
InsertCallback_NoReturnOnError ==
    \E i \in 1..Len(reqs), err \in BOOLEAN :
    /\ reqs[i].pc = "insert"
    /\ IF err
       THEN /\ reqs' = [reqs EXCEPT ![i].pc = "update", ![i].res = ErrStorage]
            /\ published' = Append(published, Event(i))
            /\ sockets' = Deliver(sockets, Event(i))
            /\ UNCHANGED <<location_data, lastRowId>>
       ELSE /\ lastRowId' = lastRowId + 1
            /\ location_data' = location_data \cup {Row(i, lastRowId + 1)}
            /\ published' = Append(published, Event(i))
            /\ sockets' = Deliver(sockets, Event(i))
            /\ reqs' = [reqs EXCEPT ![i].pc = "update", ![i].res = Success,
                                    ![i].rowid = lastRowId + 1]
    /\ UNCHANGED <<tracking_links, tracking_sessions, del, lastRes, vreq, vres,
                   activeConnections, geoVars, routeVars, swVars>>

\* The INSERT callback that leaves the response to a callback of the session
\* UPDATE: the request is not answered when its row is written.
InsertCallback_RespondAfterUpdate ==
    \E i \in 1..Len(reqs), err \in BOOLEAN :
    /\ reqs[i].pc = "insert"
    /\ IF err
       THEN /\ reqs' = [reqs EXCEPT ![i].pc = "done", ![i].res = ErrStorage]
            /\ UNCHANGED <<location_data, lastRowId, published, sockets>>
       ELSE /\ lastRowId' = lastRowId + 1
            /\ location_data' = location_data \cup {Row(i, lastRowId + 1)}
            /\ published' = Append(published, Event(i))
            /\ sockets' = Deliver(sockets, Event(i))
            /\ reqs' = [reqs EXCEPT ![i].pc = "update", ![i].rowid = lastRowId + 1]
    /\ UNCHANGED <<tracking_links, tracking_sessions, del, lastRes, vreq, vres,
                   activeConnections, geoVars, routeVars, swVars>>

\* A callback that answers only once a subscriber has taken the event: with
\* nobody in the room the request stays open.
InsertCallback_AwaitsSubscriber ==
    \E i \in 1..Len(reqs), err \in BOOLEAN :
    /\ reqs[i].pc = "insert"
    /\ IF err
       THEN /\ reqs' = [reqs EXCEPT ![i].pc = "done", ![i].res = ErrStorage]
            /\ UNCHANGED <<location_data, lastRowId, published, sockets>>
       ELSE /\ \E c \in Conns : /\ sockets[c].status = "connected"
                                /\ reqs[i].trackingId \in sockets[c].rooms
            /\ lastRowId' = lastRowId + 1
            /\ location_data' = location_data \cup {Row(i, lastRowId + 1)}
            /\ published' = Append(published, Event(i))
            /\ sockets' = Deliver(sockets, Event(i))
            /\ reqs' = [reqs EXCEPT ![i].pc = "update", ![i].res = Success,
                                    ![i].rowid = lastRowId + 1]
    /\ UNCHANGED <<tracking_links, tracking_sessions, del, lastRes, vreq, vres,
                   activeConnections, geoVars, routeVars, swVars>>

\* The INSERT INTO location_data of request i and its callback.
InsertCallback ==
    \E i \in 1..Len(reqs), err \in BOOLEAN :
    /\ reqs[i].pc = "insert"
    /\ IF err
       THEN /\ reqs' = [reqs EXCEPT ![i].pc = "done", ![i].res = ErrStorage]
            /\ UNCHANGED <<location_data, lastRowId, published, sockets>>
       ELSE /\ lastRowId' = lastRowId + 1
            /\ location_data' = location_data \cup {Row(i, lastRowId + 1)}
            /\ published' = Append(published, Event(i))
            /\ sockets' = Deliver(sockets, Event(i))
            /\ reqs' = [reqs EXCEPT ![i].pc = "update", ![i].res = Success,
                                    ![i].rowid = lastRowId + 1]
    /\ UNCHANGED <<tracking_links, tracking_sessions, del, lastRes, vreq, vres,
                   activeConnections, geoVars, routeVars, swVars>>

\* total_locations = total_locations + 1
Incremented(n) == n + 1

\* last_update = CURRENT_TIMESTAMP: the row's time stamp moves on with each
\* write of the row (a logical clock per row).
Refreshed(t) == t + 1

\* Another request's UPDATE of the same session is queued too.
Concurrent(i) ==
    \E j \in 1..Len(reqs) :
        /\ j # i /\ reqs[j].pc = "update"
        /\ reqs[j].sessionId = reqs[i].sessionId
        /\ reqs[i].sessionId \in ExistingSessions

\* The counter UPDATE that also sets is_active = 1: a sample for a stopped
\* session makes it active again.
SessionUpdate_Reactivates ==
    \E i \in 1..Len(reqs), err \in BOOLEAN :
    /\ reqs[i].pc = "update"
    /\ LET s == reqs[i].sessionId IN
       IF err
       THEN /\ reqs' = [reqs EXCEPT ![i].pc = "done", ![i].upd = "error",
                                    ![i].conc = Concurrent(i)]
            /\ UNCHANGED tracking_sessions
       ELSE IF s \in ExistingSessions
       THEN /\ tracking_sessions' =
                 [tracking_sessions EXCEPT
                    ![s].last_update = Refreshed(tracking_sessions[s].last_update),
                    ![s].total_locations = Incremented(tracking_sessions[s].total_locations),
                    ![s].is_active = TRUE]
            /\ reqs' = [reqs EXCEPT ![i].pc = "done", ![i].upd = "applied",
                                    ![i].conc = Concurrent(i)]
       ELSE /\ reqs' = [reqs EXCEPT ![i].pc = "done", ![i].upd = "nomatch"]
            /\ UNCHANGED tracking_sessions
    /\ UNCHANGED <<tracking_links, location_data, lastRowId, published, del,
                   lastRes, vreq, vres, otherVars>>

\* The UPDATE tracking_sessions ... WHERE id = ? queued by the callback of
\* request i; it has no callback of its own, so its outcome is not read.
SessionUpdate ==
    \E i \in 1..Len(reqs), err \in BOOLEAN :
    /\ reqs[i].pc = "update"
    /\ LET s == reqs[i].sessionId IN
       IF err
       THEN /\ reqs' = [reqs EXCEPT ![i].pc = "done", ![i].upd = "error",
                                    ![i].conc = Concurrent(i)]
            /\ UNCHANGED tracking_sessions
       ELSE IF s \in ExistingSessions
       THEN /\ tracking_sessions' =
                 [tracking_sessions EXCEPT
                    ![s].last_update = Refreshed(tracking_sessions[s].last_update),
                    ![s].total_locations = Incremented(tracking_sessions[s].total_locations)]
            /\ reqs' = [reqs EXCEPT ![i].pc = "done", ![i].upd = "applied",
                                    ![i].conc = Concurrent(i)]
       ELSE /\ reqs' = [reqs EXCEPT ![i].pc = "done", ![i].upd = "nomatch"]
            /\ UNCHANGED tracking_sessions
    /\ UNCHANGED <<tracking_links, location_data, lastRowId, published, del,
                   lastRes, vreq, vres, otherVars>>

\* ------------------------------------------------------------ sessions
\* An id generator that starts over: it returns the first id again.
FreshSid_StartsOver == CHOOSE s \in SessIds : \A t \in SessIds : s <= t

\* uuidv4(): an id no session has.
FreshSid == CHOOSE s \in SessIds : tracking_sessions[s] = NoRow /\
                \A t \in SessIds : tracking_sessions[t] = NoRow => s <= t

\* The row of INSERT INTO tracking_sessions (id, tracking_id): is_active and
\* total_locations take their column defaults.
NewSession(t) ==
    [exists |-> TRUE, tracking_id |-> t, last_update |-> 0, is_active |-> TRUE,
     total_locations |-> 0]

Start(op, t, err) ==
    /\ \E s \in SessIds : tracking_sessions[s] = NoRow
    /\ IF err
       THEN /\ lastRes' = [op |-> op, id |-> 0, status |-> ErrStorage]
            /\ UNCHANGED tracking_sessions
       ELSE /\ tracking_sessions' = [tracking_sessions EXCEPT ![FreshSid] = NewSession(t)]
            /\ lastRes' = [op |-> op, id |-> FreshSid, status |-> Success]
    /\ UNCHANGED <<tracking_links, location_data, lastRowId, reqs, published, del,
                   vreq, vres, otherVars>>

\* POST /api/start-session
StartSession ==
    \E t \in ExistingLinks \cup {UnknownTid}, err \in BOOLEAN : Start("start-session", t, err)

\* POST /api/mobile/start-session (device_info is not modelled)
MobileStartSession ==
    \E t \in ExistingLinks \cup {UnknownTid}, err \in BOOLEAN :
        Start("mobile/start-session", t, err)

\* The response of stop-session once its UPDATE has run without error.
StopResponse(sid) == Success

\* POST /api/stop-session
StopSession ==
    \E sid \in ExistingSessions \cup {UnknownSid}, err \in BOOLEAN :
    /\ IF err
       THEN /\ lastRes' = [op |-> "stop-session", id |-> sid, status |-> ErrStorage]
            /\ UNCHANGED tracking_sessions
       ELSE /\ tracking_sessions' =
                 IF sid \in ExistingSessions
                 THEN [tracking_sessions EXCEPT ![sid].is_active = FALSE]
                 ELSE tracking_sessions
            /\ lastRes' = [op |-> "stop-session", id |-> sid, status |-> StopResponse(sid)]
    /\ UNCHANGED <<tracking_links, location_data, lastRowId, reqs, published,
                   del, vreq, vres, otherVars>>

\* ------------------------------------------------------------ links
FreshTid == CHOOSE l \in LinkIds : tracking_links[l] = "none" /\
                \A m \in LinkIds : tracking_links[m] = "none" => l <= m

\* POST /api/create-link
CreateLink ==
    \E err \in BOOLEAN :
    /\ \E l \in LinkIds : tracking_links[l] = "none"
    /\ IF err
       THEN /\ lastRes' = [op |-> "create-link", id |-> 0, status |-> ErrStorage]
            /\ UNCHANGED tracking_links
       ELSE /\ tracking_links' = [tracking_links EXCEPT ![FreshTid] = "active"]
            /\ lastRes' = [op |-> "create-link", id |-> FreshTid, status |-> Success]
    /\ UNCHANGED <<location_data, tracking_sessions, lastRowId, reqs,
                   published, del, vreq, vres, otherVars>>

\* DELETE /api/links/:id, the SELECT and its callback.
DeleteLinkGet ==
    \E t \in ExistingLinks \cup {UnknownTid}, err \in BOOLEAN :
    /\ del = NoDel
    /\ IF err
       THEN /\ lastRes' = [op |-> "delete-link", id |-> t, status |-> ErrStorage]
            /\ UNCHANGED del
       ELSE IF t \notin ExistingLinks
       THEN /\ lastRes' = [op |-> "delete-link", id |-> t, status |-> ErrNoLink]
            /\ UNCHANGED del
       ELSE /\ del' = [pc |-> "update", id |-> t]
            /\ UNCHANGED lastRes
    /\ UNCHANGED <<tracking_links, location_data, tracking_sessions, lastRowId, reqs, published, vreq, vres, otherVars>>

\* DELETE /api/links/:id, UPDATE tracking_links SET active = 0 and its callback.
DeleteLinkDeactivate ==
    \E err \in BOOLEAN :
    /\ del.pc = "update"
    /\ IF err
       THEN /\ lastRes' = [op |-> "delete-link", id |-> del.id, status |-> ErrStorage]
            /\ del' = NoDel
            /\ UNCHANGED tracking_links
       ELSE /\ tracking_links' = [tracking_links EXCEPT ![del.id] = "inactive"]
            /\ del' = [del EXCEPT !.pc = "delete"]
            /\ UNCHANGED lastRes
    /\ UNCHANGED <<location_data, tracking_sessions, lastRowId, reqs,
                   published, vreq, vres, otherVars>>

\* DELETE /api/links/:id, DELETE FROM location_data and its callback: an
\* error is logged and the response is the same.
DeleteLinkRows ==
    \E err \in BOOLEAN :
    /\ del.pc = "delete"
    /\ location_data' =
         IF err THEN location_data
         ELSE {r \in location_data : r.tracking_id # del.id}
    /\ lastRes' = [op |-> "delete-link", id |-> del.id, status |-> Success]
    /\ del' = NoDel
    /\ UNCHANGED <<tracking_links, tracking_sessions, lastRowId, reqs,
                   published, vreq, vres, otherVars>>

\* ------------------------------------------------------------ the system
\* Ingestion and the session lifecycle.
NextMain ==
    \/ SaveLocation
    \/ MobileLocation
    \/ BackgroundLocation
    \/ InsertCallback
    \/ SessionUpdate
    \/ StartSession
    \/ MobileStartSession
    \/ StopSession

Spec == Init /\ [][NextMain]_vars

\* Ingestion and the tracking links.
NextLinks ==
    \/ SaveLocation
    \/ MobileLocation
    \/ BackgroundLocation
    \/ InsertCallback
    \/ SessionUpdate
    \/ CreateLink
    \/ DeleteLinkGet
    \/ DeleteLinkDeactivate
    \/ DeleteLinkRows

SpecLinks == Init /\ [][NextLinks]_vars

\* ------------------------------------------------------------ validation alone
\* The validation of one request body by each ingest route, over a wider set
\* of bodies: absent, null, zero, boundary and out-of-range fields.
ValidatedBodies ==
    [ep : Endpoints,
     latitude : {Undef, Null, Num(0), Num(41), Num(-90), Num(90), Num(95), Num(-91)},
     longitude : {Undef, Num(0), Num(28), Num(-180), Num(181)},
     accuracy : {Undef, Null, Num(0), Num(5), Num(-1), Num(10000), Num(10001)},
     sessionId : {NoSid, UnknownSid}]

InitValidate ==
    /\ InitMain /\ InitRouter /\ InitGeo /\ InitRoute /\ InitSw
    /\ vreq \in ValidatedBodies /\ vres = NoRes

Check(ep) ==
    /\ vreq.ep = ep
    /\ vres = NoRes
    /\ vres' = Verdict(ep, vreq)
    /\ UNCHANGED <<mainVars, vreq, otherVars>>

SaveLocationCheck == Check("save-location")
MobileLocationCheck == Check("mobile/location")
BackgroundLocationCheck == Check("background-location")

NextValidate == SaveLocationCheck \/ MobileLocationCheck \/ BackgroundLocationCheck

SpecValidate == InitValidate /\ [][NextValidate]_vars

\* ------------------------------------------------------------ the router
\* io.on('connection'): the socket opens.
SocketConnect ==
    \E c \in Conns :
    /\ sockets[c].status = "new"
    /\ sockets' = [sockets EXCEPT ![c].status = "connected"]
    /\ UNCHANGED <<mainVars, vreq, vres, activeConnections, geoVars, routeVars, swVars>>

\* socket.join(trackingId): the rooms of a socket are a Set.
Joined(rooms, t) == rooms \cup {t}

\* socket.leave(trackingId)
Left(rooms, t) == rooms \ {t}

\* The events published to link t so far.
PublishedTo(t) == SelectSeq(published, LAMBDA ev : ev.room = t)

\* A join that sends the joining socket the last event of the link.
Join_ReplaysLast(c, t) ==
    /\ sockets[c].status = "connected"
    /\ sockets' = [sockets EXCEPT
                     ![c].rooms = Joined(@, t),
                     ![c].ack = [ev |-> "tracking-joined", trackingId |-> t],
                     ![c].inbox = IF PublishedTo(t) = <<>> THEN @
                                  ELSE Append(@, PublishedTo(t)[Len(PublishedTo(t))]),
                     ![c].rejoined = IF t \in sockets[c].rooms THEN Len(published)
                                     ELSE @]
    /\ activeConnections' = [activeConnections EXCEPT ![c] = t]
    /\ UNCHANGED <<mainVars, vreq, vres, geoVars, routeVars, swVars>>

\* socket.on('join-tracking')
Join(c, t) ==
    /\ sockets[c].status = "connected"
    /\ sockets' = [sockets EXCEPT
                     ![c].rooms = Joined(@, t),
                     ![c].ack = [ev |-> "tracking-joined", trackingId |-> t],
                     ![c].rejoined = IF t \in sockets[c].rooms THEN Len(published)
                                     ELSE @]
    /\ activeConnections' = [activeConnections EXCEPT ![c] = t]
    /\ UNCHANGED <<mainVars, vreq, vres, geoVars, routeVars, swVars>>

JoinTracking == \E c \in Conns, t \in RoomIds : Join(c, t)

\* socket.on('leave-tracking')
Leave(c, t) ==
    /\ sockets[c].status = "connected"
    /\ sockets' = [sockets EXCEPT
                     ![c].rooms = Left(@, t),
                     ![c].ack = [ev |-> "tracking-left", trackingId |-> t],
                     ![c].rejoined = Never]
    /\ activeConnections' = [activeConnections EXCEPT ![c] = NoRoom]
    /\ UNCHANGED <<mainVars, vreq, vres, geoVars, routeVars, swVars>>

LeaveTracking == \E c \in Conns, t \in RoomIds : Leave(c, t)

\* A teardown that leaves only the room the registry names for the socket.
Disconnect_RegisteredRoomOnly ==
    \E c \in Conns :
    /\ sockets[c].status = "connected"
    /\ sockets' = [sockets EXCEPT
                     ![c].status = "disconnected",
                     ![c].rooms = Left(@, activeConnections[c]),
                     ![c].rejoined = Never]
    /\ activeConnections' = [activeConnections EXCEPT ![c] = NoRoom]
    /\ UNCHANGED <<mainVars, vreq, vres, geoVars, routeVars, swVars>>

\* The socket closes: Socket.IO takes it out of every room, then
\* socket.on('disconnect') runs and deletes its entry of the Map, if any.
Disconnect ==
    \E c \in Conns :
    /\ sockets[c].status = "connected"
    /\ sockets' = [sockets EXCEPT
                     ![c].status = "disconnected",
                     ![c].rooms = {},
                     ![c].rejoined = Never]
    /\ activeConnections' =
          IF activeConnections[c] # NoRoom
          THEN [activeConnections EXCEPT ![c] = NoRoom]
          ELSE activeConnections
    /\ UNCHANGED <<mainVars, vreq, vres, geoVars, routeVars, swVars>>

\* The sockets, the links and save-location with its fan-out.
NextRouter ==
    \/ SocketConnect
    \/ JoinTracking
    \/ LeaveTracking
    \/ Disconnect
    \/ CreateLink
    \/ SaveLocation
    \/ InsertCallback

SpecRouter == Init /\ [][NextRouter]_vars

\* The same system with the one thing the code's scheduling guarantees:
\* sqlite3 runs every statement queued with db.run and then calls its
\* callback.  Nothing is assumed of the sockets.
SpecRouterFair == Init /\ [][NextRouter]_vars /\ WF_vars(InsertCallback)

\* ------------------------------------------------------------ geofences
\* Positions are taken on one meridian, with the latitude counted in arcs of
\* a tenth of a metre (180 / (pi * 63710000) degrees): the Haversine
\* distance of two of them is the difference of their latitudes.
\* calculateDistance returns kilometres; the model keeps that value in units
\* of 0.0001 km.
Meridian == 29
PerKm == 10000
PerMetre == 10
Abs(n) == IF n < 0 THEN -n ELSE n

\* calculateDistance(lat1, lon1, lat2, lon2), in units of 0.0001 km.
calculateDistance(lat1, lon1, lat2, lon2) ==
    CASE lon1 = lon2 -> Abs(lat2 - lat1)

\* distance <= geofence.radius: both numbers are compared as they are, the
\* distance being in kilometres.
Within(distance, radius) == distance <= radius * PerKm

\* Math.round(distance * 1000): kilometres to whole metres, halves upwards.
RoundedMetres(distance) == (2 * distance + PerMetre) \div (2 * PerMetre)

\* The centres and radii geofences are created with, and the points checked:
\* at the centre, and around 1 m, 100 m, 1 km and 100 km from it.
FenceLats == {0}
FenceRadii == {1, 100}
PointLats == {0, 10, 14, 15, 1000, 1004, 1005, 10000, 10001, 1000000, 1000001}

\* POST /api/geofence: the row takes the next id and active = 1.
CreateGeofence ==
    \E t \in RoomIds, lat \in FenceLats, r \in FenceRadii, err \in BOOLEAN :
    /\ Cardinality(geofences) < MaxFences
    /\ geofences' =
          IF err THEN geofences
          ELSE geofences \cup
                 {[id |-> Cardinality(geofences) + 1, tracking_id |-> t,
                   latitude |-> lat, longitude |-> Meridian, radius |-> r,
                   action |-> "notify", active |-> TRUE]}
    /\ UNCHANGED <<mainVars, vreq, vres, routerVars, triggered, routeVars, swVars>>

\* The rows of SELECT * FROM geofences WHERE tracking_id = ? AND active = 1,
\* in the order of their ids.
ActiveGeofences(t) ==
    SelectSeq([i \in 1..Cardinality(geofences) |-> CHOOSE g \in geofences : g.id = i],
              LAMBDA g : g.tracking_id = t /\ g.active)

\* The entry pushed for a geofence that is triggered.
Triggered(g, lat, lon) ==
    [id |-> g.id, action |-> g.action,
     distance |-> RoundedMetres(calculateDistance(lat, lon, g.latitude, g.longitude))]

\* geofences.forEach(...): the entries of the geofences the point is within.
triggeredGeofences(rows, lat, lon) ==
    LET hit == SelectSeq(rows, LAMBDA g :
                   Within(calculateDistance(lat, lon, g.latitude, g.longitude), g.radius))
    IN [k \in 1..Len(hit) |-> Triggered(hit[k], lat, lon)]

\* POST /api/mobile/check-geofence; req and rows keep the request and the
\* rows the SELECT returned, for the properties.
CheckGeofence ==
    \E t \in RoomIds, lat \in PointLats, err \in BOOLEAN :
    /\ triggered' =
          IF err
          THEN [status |-> ErrStorage, triggeredGeofences |-> <<>>,
                req |-> [trackingId |-> t, latitude |-> lat, longitude |-> Meridian],
                rows |-> <<>>]
          ELSE [status |-> Success,
                triggeredGeofences |-> triggeredGeofences(ActiveGeofences(t), lat, Meridian),
                req |-> [trackingId |-> t, latitude |-> lat, longitude |-> Meridian],
                rows |-> ActiveGeofences(t)]
    /\ UNCHANGED <<mainVars, vreq, vres, routerVars, geofences, routeVars, swVars>>

NextGeofence == CreateGeofence \/ CheckGeofence

SpecGeofence == Init /\ [][NextGeofence]_vars

\* ------------------------------------------------------------ route analysis
\* A quotient the code computes in floating point, kept as the fraction.
Quotient(n, d) == [num |-> n, den |-> d]

\* new Date(timestamp) as a number: milliseconds; the timestamps of the rows
\* are counted in seconds (CURRENT_TIMESTAMP has that resolution).
DateMs(timestamp) == timestamp * 1000

\* if (curr.speed): a NULL speed and a speed of 0 are both skipped.
HasSpeed(row) == Truthy(row.speed)

\* A gap of exactly five minutes taken for a stop.
IsStop_Inclusive(timeDiff) == timeDiff >= 5 * 60 * 1000

\* timeDiff > 5 * 60 * 1000
IsStop(timeDiff) == timeDiff > 5 * 60 * 1000

\* One turn of the loop of analyzeRoute, for the pair (i-1, i).
RouteStep(rows, i, acc) ==
    LET prev == rows[i - 1]
        curr == rows[i]
        distance == calculateDistance(prev.latitude, prev.longitude,
                                      curr.latitude, curr.longitude)
        timeDiff == DateMs(curr.timestamp) - DateMs(prev.timestamp)
    IN [totalDistance |-> acc.totalDistance + distance,
        totalSpeed |-> IF HasSpeed(curr) THEN acc.totalSpeed + ToNum(curr.speed)
                       ELSE acc.totalSpeed,
        speedCount |-> IF HasSpeed(curr) THEN acc.speedCount + 1 ELSE acc.speedCount,
        stops |-> IF IsStop(timeDiff)
                  THEN Append(acc.stops,
                              [latitude |-> curr.latitude, longitude |-> curr.longitude,
                               duration |-> Quotient(timeDiff, 1000 * 60),
                               timestamp |-> curr.timestamp])
                  ELSE acc.stops]

\* for (let i = 1; i < locations.length; i++): the second row is the first
\* to be curr (the rows of the model are numbered from 1).
RECURSIVE RouteLoop(_, _, _)
RouteLoop(rows, i, acc) ==
    IF i > Len(rows) THEN acc ELSE RouteLoop(rows, i + 1, RouteStep(rows, i, acc))

\* Math.round(totalDistance * 100) / 100: kilometres in hundredths.
RoundedHundredths(distance) == (2 * distance + (PerKm \div 100)) \div (2 * (PerKm \div 100))

\* Math.round((totalSpeed / speedCount) * 3.6), halves upwards.
RoundedKmh(totalSpeed, speedCount) ==
    (2 * 36 * totalSpeed + 10 * speedCount) \div (2 * 10 * speedCount)

analyzeRoute(rows) ==
    IF Len(rows) < 2
    THEN [totalDistance |-> 0, avgSpeed |-> 0, stops |-> <<>>]
    ELSE LET acc == RouteLoop(rows, 2, [totalDistance |-> 0, totalSpeed |-> 0,
                                        speedCount |-> 0, stops |-> <<>>])
         IN [totalDistance |-> RoundedHundredths(acc.totalDistance),
             avgSpeed |-> IF acc.speedCount > 0
                          THEN RoundedKmh(acc.totalSpeed, acc.speedCount) ELSE 0,
             stops |-> acc.stops,
             totalLocations |-> Len(rows),
             duration |-> Quotient(DateMs(rows[Len(rows)].timestamp)
                                       - DateMs(rows[1].timestamp), 1000 * 60 * 60)]

\* The histories analysed: up to MaxHistory rows in the order of their
\* timestamps (ORDER BY timestamp ASC), 4, 5, 5 and a second, or 10 minutes
\* apart, at one of two positions, with a NULL speed or one of 0, 5, 7 m/s.
Gaps == {240, 300, 301, 600}
Speeds == {Null, Num(0), Num(5), Num(7)}
RouteLats == {0, 6500}

RECURSIVE Histories(_)
Histories(n) ==
    IF n = 0 THEN {<<>>}
    ELSE Histories(n - 1) \cup
         {Append(h, [latitude |-> lat, longitude |-> Meridian, speed |-> sp,
                     timestamp |-> IF h = <<>> THEN 0 ELSE h[Len(h)].timestamp + gap]) :
            h \in {g \in Histories(n - 1) : Len(g) = n - 1},
            lat \in RouteLats, sp \in Speeds,
            gap \in IF n = 1 THEN {0} ELSE Gaps}

InitAnalyze ==
    /\ InitMain /\ InitRouter /\ InitGeo /\ InitSw
    /\ vreq = NoBody /\ vres = NoRes
    /\ locations \in Histories(MaxHistory)
    /\ route = NoRoute

\* GET /api/route/:trackingId: the SELECT has returned `locations`.
GetRoute ==
    \E err \in BOOLEAN :
    /\ route = NoRoute
    /\ route' = IF err THEN [status |-> ErrStorage]
                ELSE [status |-> Success, body |-> analyzeRoute(locations)]
    /\ UNCHANGED <<mainVars, vreq, vres, routerVars, geoVars, locations, swVars>>

NextAnalyze == GetRoute

SpecAnalyze == InitAnalyze /\ [][NextAnalyze]_vars

\* ------------------------------------------------------------ the service worker
\* The sync queue of src/public/sw.js.  Each IndexedDB transaction (the add,
\* the getAll, the clear) is one step, and so is each fetch with its
\* response; the steps of storeLocation and of the runs of
\* handleLocationSync interleave at every await.
Locs == 1..MaxLoc

\* store.add(value) on a store with keyPath 'timestamp': the value carries
\* its key, so the key generator is not used, and an add under a key the
\* store already holds fails (ConstraintError) and stores nothing.
Add(objects, value) ==
    IF \E o \in objects : o.timestamp = value.timestamp
    THEN objects
    ELSE objects \cup {value}

\* store.getAll(): the records in ascending order of their keys.
getAll(objects) ==
    CHOOSE q \in [1..Cardinality(objects) -> objects] :
        \A a, b \in 1..Cardinality(objects) : a < b => q[a].timestamp < q[b].timestamp

\* What handleLocationSync holds in `locations` after
\* `await getStoredLocations()`.  getStoredLocations returns
\* `await store.getAll()`: where the request is awaited as a promise of its
\* result these are the rows; with the IDBRequest that IndexedDB returns
\* (no thenable) the await gives the request object itself, which has no
\* length; and when openDB fails it is [].
getStoredLocations(objects) ==
    {[k |-> "rows", rows |-> getAll(objects)],
     [k |-> "request", rows |-> <<>>],
     [k |-> "rows", rows |-> <<>>]}

\* locations.length > 0 (undefined > 0 is false)
NonEmpty(x) == x.k = "rows" /\ Len(x.rows) > 0

\* Date.now() moves on.
Tick ==
    /\ clock < MaxClock
    /\ clock' = clock + 1
    /\ UNCHANGED <<mainVars, vreq, vres, routerVars, geoVars, routeVars,
                   store, runs, handed, received>>

\* storeLocation(locationData), on a STORE_LOCATION message or from
\* handleBackgroundLocation: the add of {...locationData, timestamp:
\* Date.now()}; a failed add is logged at most.
storeLocation ==
    \E l \in Locs \ {h.loc : h \in handed} :
    /\ handed' = handed \cup {[loc |-> l, timestamp |-> clock]}
    /\ store' = Add(store, [timestamp |-> clock, loc |-> l])
    /\ UNCHANGED <<mainVars, vreq, vres, routerVars, geoVars, routeVars,
                   clock, runs, received>>

\* handleLocationSync() up to the test of locations.length: the run goes on
\* to send what it read, or ends.
handleLocationSync(src) ==
    /\ Len(runs) < MaxRuns
    /\ \E x \in getStoredLocations(store) :
          runs' = Append(runs,
                     IF NonEmpty(x)
                     THEN [src |-> src, pc |-> "send", locations |-> x.rows, k |-> 1]
                     ELSE [src |-> src, pc |-> "done", locations |-> <<>>, k |-> 0])
    /\ UNCHANGED <<mainVars, vreq, vres, routerVars, geoVars, routeVars,
                   clock, store, handed, received>>

\* self.addEventListener('sync'), tag 'location-sync'
SyncEvent == handleLocationSync("sync")

\* self.addEventListener('periodicsync'), tag 'location-sync'
PeriodicSyncEvent == handleLocationSync("periodicsync")

\* self.addEventListener('message'), type TRIGGER_SYNC
TriggerSyncMessage == handleLocationSync("TRIGGER_SYNC")

\* await sendLocationToServer(location) of the loop: the POST is answered
\* ok and the loop goes on, to the next location or to the clear; or it is
\* not (or the fetch fails), the error is thrown to the catch of
\* handleLocationSync and the run ends there, the store not cleared.
sendLocationToServer ==
    \E r \in 1..Len(runs), ok \in BOOLEAN :
    /\ runs[r].pc = "send"
    /\ IF ok
       THEN /\ received' = Append(received, runs[r].locations[runs[r].k].loc)
            /\ runs' = [runs EXCEPT
                          ![r].k = @ + 1,
                          ![r].pc = IF runs[r].k = Len(runs[r].locations)
                                    THEN "clear" ELSE "send"]
       ELSE /\ runs' = [runs EXCEPT ![r].pc = "done"]
            /\ UNCHANGED received
    /\ UNCHANGED <<mainVars, vreq, vres, routerVars, geoVars, routeVars,
                   clock, store, handed>>

\* await clearStoredLocations(): store.clear() empties the store.
clearStoredLocations ==
    \E r \in 1..Len(runs) :
    /\ runs[r].pc = "clear"
    /\ store' = {}
    /\ runs' = [runs EXCEPT ![r].pc = "done"]
    /\ UNCHANGED <<mainVars, vreq, vres, routerVars, geoVars, routeVars,
                   clock, handed, received>>

NextSync ==
    \/ Tick
    \/ storeLocation
    \/ SyncEvent
    \/ PeriodicSyncEvent
    \/ TriggerSyncMessage
    \/ sendLocationToServer
    \/ clearStoredLocations

SpecSync == Init /\ [][NextSync]_vars

\* ------------------------------------------------------------ properties
\* A field is present: neither undefined nor null.
Present(x) == x.k = "number"

AllPresent(b) == Present(b.latitude) /\ Present(b.longitude) /\ Present(b.accuracy)

CoordsInRange(b) ==
    /\ b.latitude.v >= -90 /\ b.latitude.v <= 90
    /\ b.longitude.v >= -180 /\ b.longitude.v <= 180

AccuracyInRange(b) == b.accuracy.v >= 0 /\ b.accuracy.v <= 10000

Persisted(i) == reqs[i].rowid # 0

\* C1: every persisted sample references a link that existed and was active
\* when the sample was ingested; an ingest for an unknown or inactive link is
\* answered with an error and writes no row.
C1_SamplesReferenceActiveLink ==
    \A i \in 1..Len(reqs) :
        ~reqs[i].linkOk => ~Persisted(i) /\ reqs[i].res # Success

\* C2: every row of location_data has a non-empty session id.
C2_SessionIdNonEmpty ==
    \A r \in location_data : r.session_id # NoSid

\* C3: the answer is "missing fields" exactly when one of latitude, longitude,
\* accuracy is absent (null or undefined); a body whose three fields are
\* present and in range, 0 included, and that has a sessionId is accepted.
C3_MissingIffAbsent ==
    vres # NoRes =>
        /\ (vres = ErrMissing) <=> ~AllPresent(vreq)
        /\ (AllPresent(vreq) /\ CoordsInRange(vreq) /\ AccuracyInRange(vreq)
               /\ vreq.sessionId # NoSid) => vres = Next

\* The error of the first violated rule, in the order missing fields, invalid
\* coordinates, invalid accuracy, missing session; Next when none is violated.
FirstViolated(b) ==
    IF ~AllPresent(b) THEN ErrMissing
    ELSE IF ~CoordsInRange(b) THEN ErrCoords
    ELSE IF ~AccuracyInRange(b) THEN ErrAccuracy
    ELSE IF b.sessionId = NoSid THEN ErrSession
    ELSE Next

\* C4: the reported error is that of the first violated rule in the fixed
\* order, and a request violating none of the four rules is accepted.
C4_FirstViolatedRule ==
    vres # NoRes => vres = FirstViolated(vreq)

NoEvent(i) == \A k \in 1..Len(published) : published[k].req # i

\* No ingest request is in flight: none waits for its INSERT or its UPDATE.
Quiescent == \A i \in 1..Len(reqs) : reqs[i].pc = "done"

\* The requests for session s: those accepted, those whose counter update
\* was applied, and those whose counter update failed.
Accepted(s) == {i \in 1..Len(reqs) : reqs[i].sessionId = s /\ reqs[i].res = Success}
Applied(s) == {i \in 1..Len(reqs) : reqs[i].sessionId = s /\ reqs[i].upd = "applied"}
Failed(s) == {i \in 1..Len(reqs) : reqs[i].sessionId = s /\ reqs[i].upd = "error"}

\* A request arrives in this step and is answered with a validation error.
RejectedArrival ==
    /\ Len(reqs') = Len(reqs) + 1
    /\ reqs'[Len(reqs')].res \in ValidationErrors

\* C5: an ingest rejected by validation leaves the state unchanged: the step
\* that answers it writes no row, changes no session and publishes no event,
\* and nothing is written or published for it later.
C5_RejectedLeavesStateUnchanged ==
    /\ [](\A i \in 1..Len(reqs) :
            reqs[i].res \in ValidationErrors =>
                reqs[i].pc = "done" /\ ~Persisted(i) /\ reqs[i].upd = "none" /\ NoEvent(i))
    /\ [][RejectedArrival =>
            UNCHANGED <<location_data, lastRowId, tracking_sessions, published>>]_vars

C5_Witness ==
    /\ Len(reqs) = 2
    /\ reqs[1].upd = "applied"
    /\ reqs[2].res \in ValidationErrors
    /\ location_data # {}

\* C6: a failed INSERT is answered with the storage error, and no event is
\* published and no counter update made for it; every published event is of
\* a request whose row was written.
C6_NoEventWithoutRow ==
    /\ [](\A i \in 1..Len(reqs) :
            reqs[i].res = ErrStorage =>
                reqs[i].pc = "done" /\ ~Persisted(i) /\ reqs[i].upd = "none" /\ NoEvent(i))
    /\ [](\A k \in 1..Len(published) : Persisted(published[k].req))
    /\ [][\A i \in 1..Len(reqs) :
            (reqs[i].pc = "insert" /\ reqs'[i].pc # "insert" /\ ~Persisted(i)')
              => /\ reqs'[i].res = ErrStorage
                 /\ UNCHANGED <<location_data, tracking_sessions, published>>]_vars

C6_Witness ==
    \E i, j \in 1..Len(reqs) :
        /\ reqs[i].res = ErrStorage /\ reqs[i].sessionId \in ExistingSessions
        /\ Persisted(j) /\ ~NoEvent(j)

\* C7: a request whose sample was persisted is answered with success, and
\* stays so whatever the outcome of its counter update: applied, no session
\* of that id, or failed.
C7_PersistedIsSuccess ==
    /\ [](\A i \in 1..Len(reqs) : Persisted(i) => reqs[i].res = Success)
    /\ [][\A i \in 1..Len(reqs) : reqs[i].res # NoRes => reqs'[i].res = reqs[i].res]_vars

C7_Witness ==
    \E i, j \in 1..Len(reqs) :
        /\ reqs[i].upd = "nomatch" /\ reqs[i].res = Success
        /\ reqs[j].upd = "error" /\ reqs[j].res = Success

\* C8: in every quiescent state the counter of each session equals the number
\* of samples accepted with its id.  (That the counter never decreases is the
\* second conjunct of CounterCountsAppliedUpdates below.)
C8_CounterEqualsAccepted ==
    Quiescent =>
        \A s \in ExistingSessions :
            tracking_sessions[s].total_locations = Cardinality(Accepted(s))

\* What the code keeps of the counter: in every quiescent state it equals the
\* number of samples accepted with the session's id less those whose UPDATE
\* failed (the failure is not read, the sample stays accepted and the update
\* is never made again); and the counter never decreases.
CounterCountsAppliedUpdates ==
    /\ [](Quiescent =>
            \A s \in ExistingSessions :
                tracking_sessions[s].total_locations =
                    Cardinality(Accepted(s)) - Cardinality(Failed(s)))
    /\ [][\A s \in ExistingSessions :
            tracking_sessions'[s].total_locations >= tracking_sessions[s].total_locations]_vars

DroppedUpdateReached ==
    /\ Quiescent
    /\ \E s \in ExistingSessions :
          /\ Cardinality(Accepted(s)) = 2
          /\ Cardinality(Failed(s)) = 1
          /\ tracking_sessions[s].total_locations = 1

\* The counter updates of session s ran while another was queued.
RanConcurrently(s) == \E i \in 1..Len(reqs) : reqs[i].sessionId = s /\ reqs[i].conc

\* C9: once the requests for a session whose counter updates were queued
\* together have all completed, the counter is higher by their number.
C9_ConcurrentAllCounted ==
    Quiescent =>
        \A s \in ExistingSessions :
            RanConcurrently(s) =>
                tracking_sessions[s].total_locations = Cardinality(Accepted(s))

\* What the code keeps under interleaving: the counter of a session whose
\* updates were queued together counts each applied update once (the UPDATE
\* is one statement, none is lost to another), and ends higher by the number
\* of requests less those whose UPDATE failed.
ConcurrentAppliedCounted ==
    \A s \in ExistingSessions :
        RanConcurrently(s) =>
            /\ tracking_sessions[s].total_locations = Cardinality(Applied(s))
            /\ Quiescent =>
                  tracking_sessions[s].total_locations =
                      Cardinality(Accepted(s)) - Cardinality(Failed(s))

ConcurrentAppliedReached ==
    /\ Quiescent
    /\ \E s \in ExistingSessions :
          /\ RanConcurrently(s)
          /\ Cardinality(Applied(s)) = 2
          /\ tracking_sessions[s].total_locations = 2

\* C10: stop-session for an id that names no session fails.
C10_StopUnknownFails ==
    (lastRes.op = "stop-session" /\ lastRes.id \notin ExistingSessions)
        => lastRes.status # Success

\* Session s exists and its active flag is cleared.
Inactive(ts, s) == ts[s] # NoRow /\ ~ts[s].is_active

\* C11: once the active flag of a session is cleared it stays cleared: no
\* step of start-session, stop-session or an ingest sets it again.
C11_InactiveStaysInactive ==
    [][\A s \in SessIds :
          Inactive(tracking_sessions, s) => Inactive(tracking_sessions', s)]_vars

\* A stopped session that has counted a sample, the last session handler to
\* answer being the start of another session.
C11_Witness ==
    \E s \in ExistingSessions :
        /\ Inactive(tracking_sessions, s)
        /\ tracking_sessions[s].total_locations > 0
        /\ lastRes.op \in {"start-session", "mobile/start-session"}
        /\ lastRes.status = Success
        /\ lastRes.id # s
        /\ \E i \in 1..Len(reqs) : reqs[i].sessionId = s /\ reqs[i].pc = "update"

\* ------------------------------------------------------------ router properties
\* An event is published in this step, and the event.
Publishes == Len(published') = Len(published) + 1
Latest == published'[Len(published')]

\* Socket c is subscribed to link t: connected and in the room.
Subscribed(c, t) == sockets[c].status = "connected" /\ t \in sockets[c].rooms

\* The place of an event in the order of the publish calls.
PubIndex(ev) == CHOOSE k \in 1..Len(published) : published[k].req = ev.req

\* C12: a socket subscribed to link L receives every event published to L
\* while it is subscribed, and nothing else: what is sent to a socket in a
\* step is exactly the event published in that step, if the socket is in the
\* event's room; a join delivers nothing (no replay of earlier events).
C12_ReceivesExactlyWhileSubscribed ==
    [][/\ Len(published') \in {Len(published), Len(published) + 1}
       /\ \A c \in Conns :
             sockets'[c].inbox =
                 IF Publishes /\ Subscribed(c, Latest.room)
                 THEN Append(sockets[c].inbox, Latest)
                 ELSE sockets[c].inbox]_vars

\* A late joiner: two events were published to the link the socket is in,
\* and it holds the second only.
C12_Witness ==
    \E c \in Conns :
        /\ Len(published) = 2
        /\ published[1].room = published[2].room
        /\ Subscribed(c, published[2].room)
        /\ sockets[c].inbox = <<published[2]>>

\* C13: a socket that has disconnected is in no room and has no entry in
\* activeConnections, nothing is sent to it afterwards, and its teardown
\* leaves the other sockets and their entries as they were.
C13_DisconnectedReceivesNothing ==
    /\ [](\A c \in Conns :
            sockets[c].status = "disconnected" =>
                sockets[c].rooms = {} /\ activeConnections[c] = NoRoom)
    /\ [][\A c \in Conns :
            sockets[c].status = "disconnected" =>
                /\ sockets'[c].status = "disconnected"
                /\ sockets'[c].inbox = sockets[c].inbox]_vars
    /\ [][\A c \in Conns :
            (sockets[c].status = "connected" /\ sockets'[c].status = "disconnected") =>
                \A d \in Conns \ {c} :
                    sockets'[d] = sockets[d] /\ activeConnections'[d] = activeConnections[d]]_vars

\* Two sockets received the first event of a link; one then disconnected and
\* the other received the second.
C13_Witness ==
    \E c, d \in Conns :
        /\ sockets[c].status = "disconnected"
        /\ Len(published) = 2
        /\ Subscribed(d, published[2].room)
        /\ published[1].room = published[2].room
        /\ sockets[c].inbox = <<published[1]>>
        /\ sockets[d].inbox = <<published[1], published[2]>>

\* C14: the events of a link are sent to each socket in the order of the
\* publish calls, which is the order in which the INSERT callbacks ran (the
\* order of the row ids), not the order in which the requests arrived.
C14_DeliveredInPublishOrder ==
    \A c \in Conns :
        \A i, j \in 1..Len(sockets[c].inbox) :
            LET e == sockets[c].inbox[i]
                f == sockets[c].inbox[j]
            IN (i < j /\ e.room = f.room) =>
                  /\ PubIndex(e) < PubIndex(f)
                  /\ reqs[e.req].rowid < reqs[f.req].rowid

\* A socket holds two events of one link, that of the second request first.
C14_Witness ==
    \E c \in Conns :
        /\ Len(sockets[c].inbox) = 2
        /\ sockets[c].inbox[1].room = sockets[c].inbox[2].room
        /\ sockets[c].inbox[1].req = 2
        /\ sockets[c].inbox[2].req = 1

\* C15: join-tracking is idempotent: a join of the link the socket has just
\* joined changes no socket's rooms and no entry of activeConnections, and
\* no event is sent twice to a socket.
C15_RejoinIsNoOp ==
    /\ [][\A c \in Conns, t \in RoomIds :
            (Join(c, t) /\ t \in sockets[c].rooms /\ activeConnections[c] = t) =>
                /\ \A d \in Conns :
                      /\ sockets'[d].rooms = sockets[d].rooms
                      /\ sockets'[d].inbox = sockets[d].inbox
                      /\ sockets'[d].ack = sockets[d].ack
                /\ activeConnections' = activeConnections]_vars
    /\ [](\A c \in Conns :
            \A i, j \in 1..Len(sockets[c].inbox) :
                i # j => sockets[c].inbox[i] # sockets[c].inbox[j])

\* A socket that joined twice the link it is in received, once, an event
\* published after the second join.
C15_Witness ==
    \E c \in Conns :
        /\ sockets[c].rejoined # Never
        /\ Len(sockets[c].inbox) = 1
        /\ Subscribed(c, sockets[c].inbox[1].room)
        /\ activeConnections[c] = sockets[c].inbox[1].room
        /\ PubIndex(sockets[c].inbox[1]) > sockets[c].rejoined

\* C16: leave-tracking for a link the socket is not subscribed to changes
\* no socket's rooms and no entry of activeConnections.
C16_LeaveNotSubscribedIsNoOp ==
    [][\A c \in Conns, t \in RoomIds :
          (Leave(c, t) /\ t \notin sockets[c].rooms) =>
              /\ \A d \in Conns : sockets'[d].rooms = sockets[d].rooms
              /\ activeConnections' = activeConnections]_vars

\* ------------------------------------------------------------ geofence properties
\* The distance from the checked point to the centre of g is at most r metres.
WithinMetres(g, r) ==
    Abs(triggered.req.latitude - g.latitude) <= r * PerMetre

\* Geofence g is one of the entries of the response.
Returned(g) ==
    \E k \in 1..Len(triggered.triggeredGeofences) : triggered.triggeredGeofences[k].id = g.id

\* The active geofences of the link when the check ran.
Evaluated == {triggered.rows[k] : k \in 1..Len(triggered.rows)}

\* C17: the response lists an active geofence of the link iff the distance
\* in metres from the point to its centre is at most its radius; so every
\* listed distance is at most the radius of its geofence.
C17_TriggeredIffWithinRadius ==
    triggered.status = Success =>
        /\ \A g \in Evaluated : Returned(g) <=> WithinMetres(g, g.radius)
        /\ \A k \in 1..Len(triggered.triggeredGeofences) :
              \E g \in Evaluated :
                  /\ g.id = triggered.triggeredGeofences[k].id
                  /\ triggered.triggeredGeofences[k].distance <= g.radius

\* What the code keeps: the response lists an active geofence of the link iff
\* the distance in kilometres is at most the number stored as its radius.
TriggeredIffWithinRadiusAsKm ==
    triggered.status = Success =>
        \A g \in Evaluated :
            Returned(g) <=>
                Abs(triggered.req.latitude - g.latitude) <= g.radius * PerKm

\* A geofence of radius 100 is listed for a point 1000 m from its centre.
C17_Reached ==
    /\ triggered.status = Success
    /\ \E g \in Evaluated :
          /\ g.radius = 100
          /\ Returned(g)
          /\ ~WithinMetres(g, 1000 - 1)
          /\ WithinMetres(g, 1000)
\* ------------------------------------------------------------ route properties
\* The rows that carry a speed reading, and the sum of their readings.
WithReading == {k \in 1..Len(locations) : Present(locations[k].speed)}

RECURSIVE SumOfReadings(_)
SumOfReadings(K) ==
    IF K = {} THEN 0
    ELSE LET k == CHOOSE x \in K : TRUE
         IN locations[k].speed.v + SumOfReadings(K \ {k})

\* a is x rounded to the nearest integer, halves upwards, for x = n / d.
IsRounded(a, n, d) == 2 * d * a <= 2 * n + d /\ 2 * n + d < 2 * d * (a + 1)

\* C18: for a history of at least two rows avgSpeed is 3.6 times the mean of
\* the speed readings of all rows that carry one, the first row included,
\* rounded; and 0 when no row carries one.
C18_AvgSpeedOverAllReadings ==
    (route.status = Success /\ Len(locations) >= 2) =>
        IF WithReading = {}
        THEN route.body.avgSpeed = 0
        ELSE IsRounded(route.body.avgSpeed,
                       36 * SumOfReadings(WithReading), 10 * Cardinality(WithReading))

\* Two rows with the readings 5 and 7 are analysed.
C18_Reached ==
    /\ route.status = Success
    /\ Len(locations) = 2
    /\ locations[1].speed = Num(5)
    /\ locations[2].speed = Num(7)
    /\ route.body.avgSpeed = 25

\* The time from row k-1 to row k in seconds, and the rows that follow a gap
\* of more than five minutes.
GapSeconds(k) == locations[k].timestamp - locations[k - 1].timestamp
AfterLongGap == {k \in 2..Len(locations) : GapSeconds(k) > 5 * 60}

\* C19: for a history in the order of its timestamps the stops are, in the
\* order of the history, one for each pair of consecutive rows more than
\* five minutes apart and none for the other pairs; each has the coordinates
\* and the timestamp of the later row and the gap in minutes as duration.
C19_OneStopPerLongGap ==
    (route.status = Success /\ Len(locations) >= 2) =>
        /\ Len(route.body.stops) = Cardinality(AfterLongGap)
        /\ \A k \in AfterLongGap :
              LET stop == route.body.stops[Cardinality({j \in AfterLongGap : j <= k})]
              IN /\ stop.latitude = locations[k].latitude
                 /\ stop.longitude = locations[k].longitude
                 /\ stop.timestamp = locations[k].timestamp
                 /\ stop.duration.num * 60 = GapSeconds(k) * stop.duration.den

\* Three rows, five minutes and then five minutes and a second apart: one
\* stop, at the third row.
C19_Witness ==
    /\ route.status = Success
    /\ Len(locations) = 3
    /\ GapSeconds(2) = 300
    /\ GapSeconds(3) = 301
    /\ locations[2].latitude # locations[3].latitude
    /\ Len(route.body.stops) = 1
    /\ route.body.stops[1].timestamp = locations[3].timestamp

\* ------------------------------------------------------------ persistence properties
\* C20: the rows of location_data are append-only: a row once written is in
\* the table, unchanged, after every step, link deletion included.
C20_RowsAppendOnly ==
    [][location_data \subseteq location_data']_vars

\* The row of a persisted request was removed with its link, while a row of
\* another link is still in the table.
C20_Reached ==
    /\ lastRes.op = "delete-link" /\ lastRes.status = Success
    /\ \E i \in 1..Len(reqs) :
          /\ Persisted(i)
          /\ reqs[i].trackingId = lastRes.id
          /\ \A r \in location_data : r.id # reqs[i].rowid
    /\ \E r \in location_data : r.tracking_id # lastRes.id

\* What the code keeps: a row is never modified, and is removed only by the
\* DELETE FROM location_data of a link deletion, which removes the rows of
\* that link and no other; and no id is given to two rows.
RowsRemovedOnlyWithTheirLink ==
    /\ [][\A r \in location_data :
            r \in location_data' \/ (del.pc = "delete" /\ r.tracking_id = del.id)]_vars
    /\ [][\A r \in location_data' \ location_data : r.id > lastRowId]_vars

\* The events published for request i, by their place in the publish order.
EventsOf(i) == {k \in 1..Len(published) : published[k].req = i}

\* C21: every accepted ingest publishes exactly one location-update event,
\* addressed to the room of the sample's own trackingId and carrying its
\* latitude, longitude and accuracy as submitted; a request not accepted
\* publishes none; the event is published with the row written and the
\* response not yet sent.
C21_AcceptedPublishesOneEvent ==
    /\ [](\A i \in 1..Len(reqs) :
            IF reqs[i].res = Success
            THEN /\ Cardinality(EventsOf(i)) = 1
                 /\ Persisted(i)
                 /\ \A k \in EventsOf(i) :
                        /\ published[k].room = reqs[i].trackingId
                        /\ published[k].latitude = reqs[i].latitude
                        /\ published[k].longitude = reqs[i].longitude
                        /\ published[k].accuracy = reqs[i].accuracy
            ELSE EventsOf(i) = {})
    /\ [][\A i \in 1..Len(reqs) :
            (EventsOf(i) = {} /\ EventsOf(i)' # {})
              => /\ reqs[i].res = NoRes /\ ~Persisted(i)
                 /\ Persisted(i)' /\ reqs'[i].res = Success
                 /\ Len(published') = Len(published) + 1]_vars

C21_Witness ==
    \E i, j \in 1..Len(reqs) :
        /\ reqs[i].res = Success /\ EventsOf(i) # {}
        /\ reqs[i].sessionId \in ExistingSessions
        /\ reqs[j].res = ErrStorage /\ EventsOf(j) = {}

\* The last message of socket c the server handled was leave-tracking of t.
LastLeft(c, t) == sockets[c].ack = [ev |-> "tracking-left", trackingId |-> t]

\* C22: link isolation.  An event published for link L goes only to sockets
\* that are in L's room when it is published: a socket is sent something
\* only in a publish step, only the event of that step, and only if it was
\* in the event's room before the step; a socket whose last message was
\* leave-tracking of L is sent nothing that is published for L.
C22_LinkIsolation ==
    [][\A c \in Conns :
          /\ sockets'[c].inbox # sockets[c].inbox
               => /\ Publishes
                  /\ Subscribed(c, Latest.room)
                  /\ sockets'[c].inbox = Append(sockets[c].inbox, Latest)
          /\ (Publishes /\ LastLeft(c, Latest.room))
               => sockets'[c].inbox = sockets[c].inbox]_vars

\* An event of one link reached its subscriber and not the socket that had
\* left the link and is in the room of another.
C22_Witness ==
    \E c, d \in Conns :
        /\ Len(published) >= 1
        /\ sockets[d].inbox = <<published[1]>>
        /\ sockets[c].status = "connected"
        /\ sockets[c].rooms # {} /\ published[1].room \notin sockets[c].rooms
        /\ LastLeft(c, published[1].room)
        /\ sockets[c].inbox = <<>>

StartOps == {"start-session", "mobile/start-session"}

\* C23: a start that succeeds creates one session, under an id no session
\* had, active, with total_locations 0 and the tracking id given, answers
\* with that id and leaves every other session as it was; a start whose
\* INSERT fails answers the storage error and creates no session.
C23_StartCreatesFreshSession ==
    [][\A op \in StartOps, t \in RoomIds, err \in BOOLEAN :
          Start(op, t, err) =>
              IF err
              THEN /\ lastRes'.status = ErrStorage
                   /\ tracking_sessions' = tracking_sessions
              ELSE /\ lastRes'.status = Success
                   /\ lastRes'.id \in SessIds
                   /\ tracking_sessions[lastRes'.id] = NoRow
                   /\ tracking_sessions'[lastRes'.id].exists
                   /\ tracking_sessions'[lastRes'.id].is_active
                   /\ tracking_sessions'[lastRes'.id].total_locations = 0
                   /\ tracking_sessions'[lastRes'.id].tracking_id = t
                   /\ \A s \in SessIds \ {lastRes'.id} :
                          tracking_sessions'[s] = tracking_sessions[s]]_vars

\* A second session was started beside one that has counted a sample.
C23_Witness ==
    /\ lastRes.op \in StartOps /\ lastRes.status = Success
    /\ tracking_sessions[lastRes.id] = NewSession(tracking_sessions[lastRes.id].tracking_id)
    /\ \E s \in ExistingSessions \ {lastRes.id} : tracking_sessions[s].total_locations = 1

\* Request i has been received / has been answered.
Received(i) == Len(reqs) >= i
Answered(i) == Len(reqs) >= i /\ reqs[i].res # NoRes

\* The callback of an INSERT that succeeded answers its request.
AnswersSuccess ==
    /\ InsertCallback
    /\ \E i \in 1..Len(reqs) : ~Answered(i) /\ reqs'[i].res = Success

\* C24: every ingest request is answered, and once: it gets a response in
\* the end, and the response it has got never changes.  The success response
\* waits for no socket: while a request waits for its INSERT, the step that
\* answers it with success can be taken, whoever is connected or subscribed,
\* and the response follows with nothing assumed of the sockets.
C24_EveryIngestAnsweredOnce ==
    /\ \A i \in 1..MaxReq : Received(i) ~> Answered(i)
    /\ [][\A i \in 1..Len(reqs) : Answered(i) => reqs'[i].res = reqs[i].res]_vars
    /\ []((\E i \in 1..Len(reqs) : ~Answered(i)) => ENABLED AnswersSuccess)

\* A request was answered with success with no socket in the room of its
\* link, beside one answered by the validation.
C24_Witness ==
    \E i, j \in 1..Len(reqs) :
        /\ reqs[i].res = Success
        /\ \A c \in Conns : sockets[c].inbox = <<>>
        /\ \E c \in Conns : sockets[c].status = "connected"
        /\ reqs[j].res = ErrSession

\* C25: registry consistency.  For every connected socket, activeConnections
\* has an entry iff the socket is in at least one tracking room, and the
\* entry names a room the socket is in.
C25_RegistryConsistent ==
    \A c \in Conns :
        sockets[c].status = "connected" =>
            /\ activeConnections[c] # NoRoom <=> sockets[c].rooms # {}
            /\ activeConnections[c] # NoRoom => activeConnections[c] \in sockets[c].rooms

\* What the code keeps of it: an entry names a room the socket is in, and a
\* socket that is not connected has no entry.
RegistryNamesJoinedRoom ==
    \A c \in Conns :
        /\ activeConnections[c] # NoRoom => activeConnections[c] \in sockets[c].rooms
        /\ sockets[c].status # "connected" => activeConnections[c] = NoRoom

\* join A, join B, leave B: the socket is in a room and has no entry.
C25_Reached ==
    \E c \in Conns :
        /\ sockets[c].status = "connected"
        /\ sockets[c].rooms # {}
        /\ activeConnections[c] = NoRoom
        /\ \E t \in RoomIds \ sockets[c].rooms : LastLeft(c, t)

\* The session request i names has been stopped.
ForStopped(i) ==
    /\ reqs[i].sessionId \in ExistingSessions
    /\ Inactive(tracking_sessions, reqs[i].sessionId)

\* The steps of an ingest for a stopped session, but for the counter: the
\* request is not turned away on arrival, and once its INSERT has succeeded
\* the row is written, the event is published and the answer is success.
StoppedSessionAccepted ==
    /\ Len(reqs') = Len(reqs) + 1
         => LET r == reqs'[Len(reqs')] IN
            (r.sessionId \in ExistingSessions /\ Inactive(tracking_sessions, r.sessionId))
              => r.pc = "insert" /\ r.res = NoRes
    /\ \A i \in 1..Len(reqs) :
          (ForStopped(i) /\ reqs[i].pc = "insert" /\ reqs'[i].pc = "update")
            => Persisted(i)' /\ EventsOf(i)' # {} /\ reqs'[i].res = Success

\* The counter update of request i has run: its UPDATE left the queue.
UpdateRan(i) == reqs[i].pc = "update" /\ reqs'[i].pc = "done"

CountedAndRefreshed(s) ==
    /\ tracking_sessions'[s].total_locations = tracking_sessions[s].total_locations + 1
    /\ tracking_sessions'[s].last_update > tracking_sessions[s].last_update

\* C26: an ingest for a session that has been stopped is accepted like any
\* other: the sample is persisted and its event published, and the stopped
\* session's total_locations is incremented and its last_update refreshed.
C26_StoppedSessionStillCounts ==
    [][/\ StoppedSessionAccepted
       /\ \A i \in 1..Len(reqs) :
             (ForStopped(i) /\ UpdateRan(i)) => CountedAndRefreshed(reqs[i].sessionId)]_vars

\* The same, less the updates that failed in storage: stopping a session
\* does not freeze its counter.
StoppedSessionCountsAppliedUpdates ==
    [][/\ StoppedSessionAccepted
       /\ \A i \in 1..Len(reqs) :
             (ForStopped(i) /\ UpdateRan(i) /\ reqs'[i].upd # "error")
               => CountedAndRefreshed(reqs[i].sessionId)]_vars

\* A stopped session that counted one of two samples accepted for it.
C26_Reached ==
    \E i, j \in 1..Len(reqs) :
        /\ ForStopped(i) /\ reqs[j].sessionId = reqs[i].sessionId
        /\ reqs[i].upd = "applied" /\ reqs[j].upd = "error"
        /\ tracking_sessions[reqs[i].sessionId].total_locations = 1

\* ------------------------------------------------------------ sync queue properties
Stored == {o.loc : o \in store}
Sent == {received[a] : a \in 1..Len(received)}

\* C27: the sync queue loses nothing: every location handed to storeLocation
\* is in the local store or has been sent to the server with success.
C27_NoLocationLost == \A h \in handed : h.loc \in Stored \cup Sent

\* A location is lost to the clear of a sync run: it was stored, under a key
\* of its own, after the run read the store.
C27_LostToClear ==
    \E h \in handed :
        /\ h.loc \notin Stored \cup Sent
        /\ \A g \in handed \ {h} : g.timestamp # h.timestamp
        /\ \E r \in 1..Len(runs) : runs[r].pc = "done" /\ runs[r].k > Len(runs[r].locations)

\* A location is lost to the key of another: both were stored in the same
\* millisecond, and no sync has run.
C27_LostToSameKey ==
    \E h \in handed :
        /\ h.loc \notin Stored
        /\ \E g \in handed \ {h} : g.timestamp = h.timestamp
        /\ runs = <<>>

\* What the queue keeps: only locations handed to storeLocation are sent,
\* and only the clear of a run that has sent all it read takes records out.
SentWasHanded ==
    /\ [](Sent \subseteq {h.loc : h \in handed})
    /\ [][store' \subseteq store \/ \E o \in store' : store = store' \ {o}]_vars
    /\ [][\A o \in store \ store' :
            \E r \in 1..Len(runs) : runs[r].pc = "clear" /\ runs'[r].pc = "done"]_vars

C28_ResentAfterFailure ==
    \E a, b \in 1..Len(received) :
        /\ a # b /\ received[a] = received[b]
        /\ Len(runs) = 2
        /\ runs[1].pc = "done" /\ runs[1].k = 2 /\ Len(runs[1].locations) = 2
        /\ runs[2].k >= 2 /\ runs[2].locations = runs[1].locations

\* Two runs read the store before either cleared it: both sent the location.
C28_SentByOverlappingRuns ==
    \E a, b \in 1..Len(received) :
        /\ a # b /\ received[a] = received[b]
        /\ Len(runs) = 2
        /\ runs[1].pc = "clear" /\ runs[2].pc = "clear"
        /\ runs[1].src # runs[2].src

====
